---- MODULE Spec2Model ----
(***************************************************************************)
(* Model of src/app.py: the Message card builder for Google Chat webhooks. *)
(*                                                                         *)
(* Python values are modelled as follows.                                  *)
(*   - Optional[T]: None is the empty tuple, a supplied value v is <<v>>.  *)
(*   - dict: a record; a key the code does not set is absent from DOMAIN.  *)
(*   - list: a sequence.  Python positions are 0-based: Item(l, i).        *)
(*   - an exception: a record of the exception class and its message.      *)
(*   - self.card is ONE object.  A reference to it is the value CardRef;   *)
(*     what a holder of the reference sees is the current value of card.   *)
(***************************************************************************)
EXTENDS Integers, Sequences, FiniteSets, TLC

VARIABLES
    webhook_url,   \* self.webhook_url
    card,          \* the dict self.card refers to
    payload,       \* what the caller holds from its latest _prepare_msg()
    section_calls, \* history: the number of add_section calls made so far
    http,          \* the HTTP requests the latest call issued (urlopen calls)
    last,          \* history: the latest call, its arguments and outcome
    before         \* history: card as it was when the latest call started

vars == <<webhook_url, card, payload, section_calls, http, last, before>>

----------------------------------------------------------------------------
(* Bounds of the exploration *)

MaxSections == 2
MaxWidgets == 2

----------------------------------------------------------------------------
(* Python values *)

None == <<>>
Some(v) == <<v>>
EmptyDict == <<>>

\* the Python value an Optional[str] stands for, None written "None"
Value(o) == IF o = None THEN "None" ELSE o[1]

\* truth value of an Optional[str]: None and "" are falsy
Truthy(o) == o # None /\ o[1] # ""

\* Python's l[i] for 0 <= i < len(l)
Item(l, i) == l[i + 1]

\* the reference held in self.card
CardRef == "self.card"

----------------------------------------------------------------------------
(* Exceptions, by raise site *)

NoSectionError ==
    [type |-> "ValueError", msg |-> "You need at least 1 section to add a widget"]
SectionIndexError ==
    [type |-> "IndexError", msg |-> "Section index out of range"]
MissingUrlError ==
    [type |-> "ValueError", msg |-> "Button requires a URL to open"]
MissingButtonContentError ==
    [type |-> "ValueError", msg |-> "Button must define either text or image_url"]
MissingWebhookError ==
    [type |-> "WebhookError",
     msg |-> "No webhook URL provided. Please pass it to the constructor or send()."]
URLError ==
    [type |-> "URLError", msg |-> "urlopen error"]

---------------------------------------------------------------------------------------------------------------------------------------------------
(* Message.__init__ *)

\* the state Message(title, subtitle, url) leaves
Construct(title, subtitle, url) ==
    /\ webhook_url = url
    /\ card = [header |-> [title |-> title, subtitle |-> subtitle],
               sections |-> <<>>]
    /\ payload = None
    /\ section_calls = 0
    /\ http = <<>>
    /\ last = [op |-> "__init__", args |-> EmptyDict, ret |-> None, exc |-> None]
    /\ before = card

-----
(* Call outcomes *)

\* the call returned ret
Return(op, args, ret) ==
    /\ last' = [op |-> op, args |-> args, ret |-> ret, exc |-> None]
    /\ before' = card

\* the call raised exc; nothing it did before the raise is undone
Raise(op, args, exc) ==
    /\ last' = [op |-> op, args |-> args, ret |-> None, exc |-> Some(exc)]
    /\ before' = card

\* number of widgets on the card, over all its sections
RECURSIVE WidgetCount(_)
WidgetCount(sections) ==
    IF sections = <<>> THEN 0
    ELSE Len(Head(sections).widgets) + WidgetCount(Tail(sections))

----------------------------------------------------------------------------
(* Section helpers *)

\* the section dict add_section builds
NewSection(header) ==
    IF Truthy(header)
        THEN [widgets |-> <<>>, header |-> header[1]]
        ELSE [widgets |-> <<>>]

\* a variant that returns the length after the append
add_section_return_len(sections) == Len(sections)

\* len(self.card["sections"]) - 1, taken after the append
add_section_return(sections) == Len(sections) - 1

add_section(header) ==
    /\ Len(card.sections) < MaxSections
    /\ card' = [card EXCEPT !.sections = Append(@, NewSection(header))]
    /\ Return("add_section", EmptyDict, Some(add_section_return(card'.sections)))
    /\ section_calls' = section_calls + 1
    /\ http' = <<>>
    /\ UNCHANGED <<webhook_url, payload>>

\* a variant where an unset section resolves to the first section
_resolve_section_none_first(sections, section) ==
    IF sections = <<>>
        THEN [exc |-> Some(NoSectionError), pos |-> -1]
    ELSE IF section = None
        THEN [exc |-> None, pos |-> 0]
    ELSE IF section[1] < 0 \/ section[1] >= Len(sections)
        THEN [exc |-> Some(SectionIndexError), pos |-> -1]
    ELSE [exc |-> None, pos |-> section[1]]

\* a variant that tests `not section`, so that index 0 counts as unset
_resolve_section_falsy_zero(sections, section) ==
    IF sections = <<>>
        THEN [exc |-> Some(NoSectionError), pos |-> -1]
    ELSE IF section = None \/ section = Some(0)
        THEN [exc |-> None, pos |-> Len(sections) - 1]
    ELSE IF section[1] < 0 \/ section[1] >= Len(sections)
        THEN [exc |-> Some(SectionIndexError), pos |-> -1]
    ELSE [exc |-> None, pos |-> section[1]]

\* a variant without the `section < 0` test: a negative index then counts
\* from the end of the list, as Python's list indexing does
_resolve_section_no_negative_test(sections, section) ==
    IF sections = <<>>
        THEN [exc |-> Some(NoSectionError), pos |-> -1]
    ELSE IF section = None
        THEN [exc |-> None, pos |-> Len(sections) - 1]
    ELSE IF section[1] >= Len(sections) \/ section[1] < 0 - Len(sections)
        THEN [exc |-> Some(SectionIndexError), pos |-> -1]
    ELSE IF section[1] < 0
        THEN [exc |-> None, pos |-> Len(sections) + section[1]]
    ELSE [exc |-> None, pos |-> section[1]]

\* Either the exception raised, or the position of the section whose dict
\* is returned.  sections[-1] is the last item of a non-empty list.
_resolve_section(sections, section) ==
    IF sections = <<>>
        THEN [exc |-> Some(NoSectionError), pos |-> -1]
    ELSE IF section = None
        THEN [exc |-> None, pos |-> Len(sections) - 1]
    ELSE IF section[1] < 0 \/ section[1] >= Len(sections)
        THEN [exc |-> Some(SectionIndexError), pos |-> -1]
    ELSE [exc |-> None, pos |-> section[1]]

\* a variant that replaces the widget list instead of appending to it
widgets_append_overwrite(c, pos, widget) ==
    [c EXCEPT !.sections[pos + 1].widgets = <<widget>>]

\* <section dict>["widgets"].append(widget), on the section at position pos
widgets_append(c, pos, widget) ==
    [c EXCEPT !.sections[pos + 1].widgets = Append(@, widget)]

\* self._resolve_section(section)["widgets"].append(widget)
AddWidget(op, args, section, widget) ==
    LET r == _resolve_section(card.sections, section) IN
    /\ IF r.exc # None
          THEN /\ Raise(op, args, r.exc[1])
               /\ UNCHANGED card
          ELSE /\ WidgetCount(card.sections) < MaxWidgets
               /\ card' = widgets_append(card, r.pos, widget)
               /\ Return(op, args, None)
    /\ http' = <<>>
    /\ UNCHANGED <<webhook_url, payload, section_calls>>

----------------------------------------------------------------------------
(* Widget builders *)

add_text(text, section) ==
    AddWidget("add_text", [section |-> section], section,
              [textParagraph |-> [text |-> text]])

add_image(url, alt_text, section) ==
    AddWidget("add_image", [section |-> section], section,
              [image |-> [imageUrl |-> url, altText |-> alt_text]])

add_divider(section) ==
    AddWidget("add_divider", [section |-> section], section,
              [divider |-> EmptyDict])

\* a variant that tests `button_text or button_url`
key_value_has_button_or(button_text, button_url) ==
    Truthy(button_text) \/ Truthy(button_url)

\* the truth value of `button_text and button_url`
key_value_has_button(button_text, button_url) ==
    Truthy(button_text) /\ Truthy(button_url)

\* the key_value dict add_key_value builds
KeyValue(top_label, content, icon, bottom_label, button_text, button_url, multiline) ==
    [content |-> content]
    @@ (IF multiline THEN "contentMultiline" :> TRUE ELSE EmptyDict)
    @@ (IF Truthy(top_label) THEN "topLabel" :> top_label[1] ELSE EmptyDict)
    @@ (IF Truthy(bottom_label) THEN "bottomLabel" :> bottom_label[1] ELSE EmptyDict)
    @@ (IF Truthy(icon) THEN "icon" :> icon[1] ELSE EmptyDict)
    @@ (IF key_value_has_button(button_text, button_url)
           THEN "button" :>
                  [textButton |->
                     [text |-> Value(button_text),
                      onClick |-> [openLink |-> [url |-> Value(button_url)]]]]
           ELSE EmptyDict)

add_key_value(top_label, content, icon, bottom_label, button_text, button_url, section, multiline) ==
    AddWidget("add_key_value",
              [section |-> section, button_text |-> button_text,
               button_url |-> button_url],
              section,
              [keyValue |-> KeyValue(top_label, content, icon, bottom_label,
                                     button_text, button_url, multiline)])

\* the decorated dict add_decorated_text builds
Decorated(text, start_icon, end_icon, on_click_url) ==
    [text |-> text]
    @@ (IF Truthy(start_icon) THEN "startIcon" :> start_icon[1] ELSE EmptyDict)
    @@ (IF Truthy(end_icon) THEN "endIcon" :> end_icon[1] ELSE EmptyDict)
    @@ (IF Truthy(on_click_url)
           THEN "onClick" :> [openLink |-> [url |-> on_click_url[1]]]
           ELSE EmptyDict)

add_decorated_text(text, start_icon, end_icon, on_click_url, section) ==
    AddWidget("add_decorated_text", [section |-> section], section,
              [decoratedText |-> Decorated(text, start_icon, end_icon, on_click_url)])

\* a variant that tests `url is None`, so that an empty url passes
Button_url_is_none(text, url, image_url, name) ==
    IF url = None
        THEN [exc |-> Some(MissingUrlError)]
    ELSE IF Truthy(text)
        THEN [exc |-> None,
              button |-> [textButton |->
                            [text |-> text[1],
                             onClick |-> [openLink |-> [url |-> url[1]]]]]]
    ELSE IF Truthy(image_url)
        THEN [exc |-> None,
              button |-> [imageButton |->
                            [name |-> IF Truthy(name) THEN name[1] ELSE "Button",
                             iconUrl |-> image_url[1],
                             onClick |-> [openLink |-> [url |-> url[1]]]]]]
    ELSE [exc |-> Some(MissingButtonContentError)]

\* a variant that tests image_url before text
Button_image_first(text, url, image_url, name) ==
    IF ~Truthy(url)
        THEN [exc |-> Some(MissingUrlError)]
    ELSE IF Truthy(image_url)
        THEN [exc |-> None,
              button |-> [imageButton |->
                            [name |-> IF Truthy(name) THEN name[1] ELSE "Button",
                             iconUrl |-> image_url[1],
                             onClick |-> [openLink |-> [url |-> url[1]]]]]]
    ELSE IF Truthy(text)
        THEN [exc |-> None,
              button |-> [textButton |->
                            [text |-> text[1],
                             onClick |-> [openLink |-> [url |-> url[1]]]]]]
    ELSE [exc |-> Some(MissingButtonContentError)]

\* the argument checks of add_button and the button dict it builds:
\* either the exception raised or the button
Button(text, url, image_url, name) ==
    IF ~Truthy(url)
        THEN [exc |-> Some(MissingUrlError)]
    ELSE IF Truthy(text)
        THEN [exc |-> None,
              button |-> [textButton |->
                            [text |-> text[1],
                             onClick |-> [openLink |-> [url |-> url[1]]]]]]
    ELSE IF Truthy(image_url)
        THEN [exc |-> None,
              button |-> [imageButton |->
                            [name |-> IF Truthy(name) THEN name[1] ELSE "Button",
                             iconUrl |-> image_url[1],
                             onClick |-> [openLink |-> [url |-> url[1]]]]]]
    ELSE [exc |-> Some(MissingButtonContentError)]

add_button(text, url, image_url, name, section) ==
    LET args == [text |-> text, url |-> url, image_url |-> image_url,
                 name |-> name, section |-> section]
        b == Button(text, url, image_url, name)
    IN  IF b.exc # None
            THEN /\ Raise("add_button", args, b.exc[1])
                 /\ http' = <<>>
                 /\ UNCHANGED <<webhook_url, card, payload, section_calls>>
            ELSE AddWidget("add_button", args, section, [buttons |-> <<b.button>>])

----------------------------------------------------------------------------
(* Message delivery *)

\* {"cards": [self.card]}: the list holds the reference, not a copy
_prepare_msg == [cards |-> <<CardRef>>]

\* what a holder of reference ref finds there
Deref(ref) == card

\* the payload p as its holder reads it now
View(p) == [cards |-> [i \in DOMAIN p.cards |-> Deref(p.cards[i])]]

\* the caller's `payload = message._prepare_msg()`
build ==
    /\ payload' = Some(_prepare_msg)
    /\ Return("build", EmptyDict, None)
    /\ http' = <<>>
    /\ UNCHANGED <<webhook_url, card, section_calls>>

\* a variant that prefers the stored URL: self.webhook_url or webhook_url
resolve_url_stored_first(explicit, stored) ==
    IF Truthy(stored) THEN stored ELSE explicit

\* webhook_url or self.webhook_url
resolve_url(explicit, stored) == IF Truthy(explicit) THEN explicit ELSE stored

\* json.dumps(...).encode("utf-8"): the text is fixed by the value read now
json_dumps(p) == View(p)

\* request.urlopen(req): the endpoint answers with resp, or no answer comes
\* and urlopen raises URLError, which send does not catch.  An HTTPError is
\* caught and read like a response.
send(explicit, resp) ==
    LET url == resolve_url(explicit, webhook_url)
        args == [webhook_url |-> explicit]
    IN  /\ IF ~Truthy(url)
              THEN /\ Raise("send", args, MissingWebhookError)
                   /\ http' = <<>>
              ELSE /\ http' = <<[url |-> url[1],
                                 data |-> json_dumps(_prepare_msg),
                                 content_type |-> "application/json"]>>
                   /\ IF resp = None
                         THEN Raise("send", args, URLError)
                         ELSE Return("send", args, resp)
        /\ UNCHANGED <<webhook_url, card, payload, section_calls>>

----------------------------------------------------------------------------
(* Input sets *)

StoredUrls == {None, Some(""), Some("https://stored")}
SendUrls == {None, Some(""), Some("https://explicit")}
Headers == {None, Some(""), Some("Summary")}
SectionArgs == {None} \cup {Some(i) : i \in -1..MaxSections}
OptStrings == {None, Some(""), Some("x")}
Names == {None, Some("Open")}
IconUrls == {None, Some("https://icon")}
Responses ==
    {None, Some([status |-> 200, body |-> "{}"]),
     Some([status |-> 404, body |-> "Not Found"])}

----------------------------------------------------------------------------
(* Steps: one call, its arguments drawn from the given sets *)

AddSectionStep(SectionHeaders) ==
    \E header \in SectionHeaders : add_section(header)

AddTextStep == \E section \in SectionArgs : add_text("v1 deployed", section)

AddImageStep == \E section \in SectionArgs : add_image("https://img", "alt", section)

AddDividerStep == \E section \in SectionArgs : add_divider(section)

AddKeyValueStep(Extras, ButtonTexts, ButtonUrls) ==
    \E x \in Extras, button_text \in ButtonTexts, button_url \in ButtonUrls,
       section \in SectionArgs :
        add_key_value(x, "Nominal", x, x, button_text, button_url, section, x # None)

AddDecoratedTextStep(Extras) ==
    \E x \in Extras, section \in SectionArgs :
        add_decorated_text("text", x, x, x, section)

AddButtonStep(ButtonTexts, Urls, ImageUrls, ButtonNames) ==
    \E text \in ButtonTexts, url \in Urls, image_url \in ImageUrls,
       name \in ButtonNames, section \in SectionArgs :
        add_button(text, url, image_url, name, section)

BuildStep == build

SendStep(Explicit, Answers) ==
    \E explicit \in Explicit, resp \in Answers : send(explicit, resp)

---------------------------------------------------------------------------------------------------------------------------------------------------
(* Specification: every operation, on a Message built without a stored URL *)

Init == Construct("Deployment", "ok", None)

Next ==
    \/ AddSectionStep({Some("Summary")})
    \/ AddTextStep
    \/ AddImageStep
    \/ AddDividerStep
    \/ AddKeyValueStep({Some("Status")}, {Some("Open")}, {Some("https://x")})
    \/ AddDecoratedTextStep({None})
    \/ AddButtonStep({None, Some("View")}, {None, Some("https://x/y")}, {None}, {None})
    \/ BuildStep
    \/ SendStep({None, Some("https://explicit")},
                {None, Some([status |-> 200, body |-> "{}"])})

Spec == Init /\ [][Next]_vars

(* Sections with and without a header, and two kinds of widget *)

NextSections ==
    \/ AddSectionStep(Headers)
    \/ AddTextStep
    \/ AddDividerStep

SpecSections == Init /\ [][NextSections]_vars

(* add_button over every combination of its optional arguments *)

NextButton ==
    \/ AddSectionStep({None})
    \/ AddButtonStep(OptStrings, OptStrings, IconUrls, Names)

SpecButton == Init /\ [][NextButton]_vars

(* add_key_value and add_decorated_text over their optional arguments *)

NextKeyValue ==
    \/ AddSectionStep({None})
    \/ AddKeyValueStep({None, Some("CHECK_CIRCLE")}, OptStrings, OptStrings)
    \/ AddDecoratedTextStep({None, Some("x")})

SpecKeyValue == Init /\ [][NextKeyValue]_vars

(* Building and sending, with and without a stored URL *)

InitDelivery == \E url \in StoredUrls : Construct("Deployment", "ok", url)

NextDelivery ==
    \/ AddSectionStep({None})
    \/ AddTextStep
    \/ BuildStep
    \/ SendStep(SendUrls, Responses)

SpecDelivery == InitDelivery /\ [][NextDelivery]_vars

----------------------------------------------------------------------------
(* Vocabulary of the properties *)

WidgetOps ==
    {"add_text", "add_image", "add_divider", "add_key_value",
     "add_decorated_text", "add_button"}

\* the latest call was a widget-adding call
WidgetCall == last.op \in WidgetOps

\* the latest call's own arguments pass its checks (only add_button has any)
ValidArgs ==
    last.op = "add_button" =>
        /\ Truthy(last.args.url)
        /\ Truthy(last.args.text) \/ Truthy(last.args.image_url)

\* l is p with something appended, zero or more items
IsPrefix(p, l) == Len(p) <= Len(l) /\ SubSeq(l, 1, Len(p)) = p

\* section t is section s with exactly one widget appended at the end
OneWidgetAppended(s, t) ==
    /\ DOMAIN t = DOMAIN s
    /\ "header" \in DOMAIN s => t.header = s.header
    /\ Len(t.widgets) = Len(s.widgets) + 1
    /\ IsPrefix(s.widgets, t.widgets)

\* the latest call appended one widget to the section at 0-based position i
\* and changed nothing else of the card
AppendedTo(i) ==
    /\ card.header = before.header
    /\ Len(card.sections) = Len(before.sections)
    /\ \A j \in 0..(Len(card.sections) - 1) :
          IF j = i
             THEN OneWidgetAppended(Item(before.sections, j), Item(card.sections, j))
             ELSE Item(card.sections, j) = Item(before.sections, j)

\* the widget the latest call appended, when it appended one
NewWidget ==
    LET j == CHOOSE j \in 0..(Len(card.sections) - 1) :
                 Len(Item(card.sections, j).widgets)
                     > Len(Item(before.sections, j).widgets)
        ws == Item(card.sections, j).widgets
    IN  ws[Len(ws)]

\* the widgets of the card, over all its sections
AllWidgets(c) ==
    UNION {{c.sections[j].widgets[k] : k \in 1..Len(c.sections[j].widgets)} :
              j \in 1..Len(c.sections)}

----------------------------------------------------------------------------
(* C1: every add_section call succeeds, appends exactly one section with   *)
(* an empty widget list at the end of sections, leaves the rest of the     *)
(* card as it was, and returns the number of sections that existed before  *)
(* the call, which is the number of add_section calls made before it.      *)
C1_AddSectionReturnsIndex ==
    last.op = "add_section" =>
        /\ last.exc = None
        /\ card.header = before.header
        /\ Len(card.sections) = Len(before.sections) + 1
        /\ IsPrefix(before.sections, card.sections)
        /\ card.sections[Len(card.sections)].widgets = <<>>
        /\ last.ret = Some(Len(before.sections))
        /\ last.ret = Some(section_calls - 1)

\* the second add_section call, made after a widget was added
C1_Witness ==
    /\ last.op = "add_section"
    /\ last.ret = Some(1)
    /\ before.sections[1].widgets # <<>>

(* C2: when a section exists, a widget-adding call with valid arguments    *)
(* and section=None succeeds and appends exactly one widget to the end of  *)
(* the last section; every other section is unchanged.                     *)
C2_NoneTargetsLastSection ==
    (WidgetCall /\ ValidArgs /\ last.args.section = None /\ before.sections # <<>>) =>
        /\ last.exc = None
        /\ AppendedTo(Len(before.sections) - 1)

\* two sections: the call adds to the second, which already had a widget
C2_Witness ==
    /\ WidgetCall /\ last.args.section = None /\ last.exc = None
    /\ Len(before.sections) = 2
    /\ Len(before.sections[2].widgets) = 1
    /\ Len(card.sections[2].widgets) = 2

(* C3: with n >= 1 sections, a widget-adding call with valid arguments and *)
(* an explicit index i, 0 <= i < n, succeeds and appends its widget to     *)
(* section i and to no other; index 0 is the first section.                *)
C3_ExplicitIndexTargetsThatSection ==
    (/\ WidgetCall /\ ValidArgs
     /\ last.args.section # None
     /\ last.args.section[1] >= 0
     /\ last.args.section[1] < Len(before.sections)) =>
        /\ last.exc = None
        /\ AppendedTo(last.args.section[1])

\* explicit index 0 with two sections: the first section gets the widget
C3_Witness ==
    /\ WidgetCall /\ last.args.section = Some(0) /\ last.exc = None
    /\ Len(before.sections) = 2
    /\ Len(card.sections[1].widgets) = Len(before.sections[1].widgets) + 1
    /\ card.sections[2] = before.sections[2]

\* the explicit index of the latest call is outside [0, len(sections))
IndexOutOfRange ==
    /\ last.args.section # None
    /\ \/ last.args.section[1] < 0
       \/ last.args.section[1] >= Len(before.sections)

(* C4, as stated: every widget-adding call fails with NoSectionError when  *)
(* the card has no sections, and with SectionIndexError when sections      *)
(* exist and the explicit index is out of range; the card is unchanged.    *)
C4_AsStated ==
    WidgetCall =>
        /\ before.sections = <<>> =>
              last.exc = Some(NoSectionError) /\ card = before
        /\ (before.sections # <<>> /\ IndexOutOfRange) =>
              last.exc = Some(SectionIndexError) /\ card = before

(* C4, amended: a widget-adding call whose own arguments pass its checks   *)
(* fails with NoSectionError when the card has no sections, and with       *)
(* SectionIndexError when sections exist and the explicit index is out of  *)
(* range; an add_button call whose arguments fail its checks fails with    *)
(* MissingUrlError or MissingButtonContentError whatever the sections are; *)
(* every failed widget-adding call leaves the card unchanged.              *)
C4_FailedAddLeavesCardUnchanged ==
    WidgetCall =>
        /\ (ValidArgs /\ before.sections = <<>>) =>
              last.exc = Some(NoSectionError)
        /\ (ValidArgs /\ before.sections # <<>> /\ IndexOutOfRange) =>
              last.exc = Some(SectionIndexError)
        /\ ~ValidArgs =>
              last.exc \in {Some(MissingUrlError), Some(MissingButtonContentError)}
        /\ last.exc # None => card = before

\* a negative index on a card that has a section with a widget
C4_Witness ==
    /\ WidgetCall
    /\ last.args.section = Some(-1)
    /\ last.exc = Some(SectionIndexError)
    /\ Len(card.sections) = 2
    /\ card.sections[2].widgets # <<>>

\* what the caller reads in the payload it holds
Held == IF payload = None THEN None ELSE Some(View(payload[1]))

(* C5: a payload obtained from build() keeps the sections and widgets it   *)
(* had when it was returned, whatever is called on the builder afterwards. *)
C5_PayloadIsSnapshot ==
    [][(payload # None /\ last'.op # "build") => Held' = Held]_vars

(* C6: add_button with url absent or empty fails with MissingUrlError for  *)
(* every text, image_url, name and section, also with no section or an     *)
(* invalid index, and appends no widget.                                   *)
C6_ButtonWithoutUrlFails ==
    (last.op = "add_button" /\ ~Truthy(last.args.url)) =>
        /\ last.exc = Some(MissingUrlError)
        /\ card = before

\* an empty url, with text and image_url given and no section to add to
C6_Witness ==
    /\ last.op = "add_button"
    /\ last.args.url = Some("")
    /\ Truthy(last.args.text) /\ Truthy(last.args.image_url)
    /\ before.sections = <<>>
    /\ last.exc = Some(MissingUrlError)

\* the url-opening action every button carries
OpenLink(url) == [openLink |-> [url |-> url]]

(* C7: a successful add_button appends one buttons widget holding exactly  *)
(* one button of exactly one variant: textButton whenever text is given    *)
(* (non-empty), imageButton only when text is not and image_url is, its    *)
(* name defaulting to "Button"; with a url but neither text nor image_url  *)
(* the call fails with MissingButtonContentError and appends nothing.  No  *)
(* button of the card carries both textButton and imageButton.             *)
C7_OneButtonVariant ==
    /\ (last.op = "add_button" /\ Truthy(last.args.url)) =>
          /\ (~Truthy(last.args.text) /\ ~Truthy(last.args.image_url)) =>
                last.exc = Some(MissingButtonContentError) /\ card = before
          /\ last.exc = None =>
                /\ DOMAIN NewWidget = {"buttons"}
                /\ Len(NewWidget.buttons) = 1
                /\ Truthy(last.args.text) =>
                      NewWidget.buttons[1] =
                          [textButton |->
                              [text |-> last.args.text[1],
                               onClick |-> OpenLink(last.args.url[1])]]
                /\ ~Truthy(last.args.text) =>
                      /\ Truthy(last.args.image_url)
                      /\ NewWidget.buttons[1] =
                          [imageButton |->
                              [name |-> IF Truthy(last.args.name)
                                           THEN last.args.name[1] ELSE "Button",
                               iconUrl |-> last.args.image_url[1],
                               onClick |-> OpenLink(last.args.url[1])]]
    /\ \A w \in AllWidgets(card) :
          "buttons" \in DOMAIN w =>
              \A k \in 1..Len(w.buttons) :
                  \/ DOMAIN w.buttons[k] = {"textButton"}
                  \/ DOMAIN w.buttons[k] = {"imageButton"}

\* text and image_url both given: the button is a textButton
C7_Witness ==
    /\ last.op = "add_button" /\ last.exc = None
    /\ Truthy(last.args.text) /\ Truthy(last.args.image_url)
    /\ "textButton" \in DOMAIN NewWidget.buttons[1]

\* the section argument of the latest call resolves to a section
SectionResolves ==
    /\ before.sections # <<>>
    /\ last.args.section = None \/ ~IndexOutOfRange

(* C8: add_key_value attaches a button to the keyValue widget if and only  *)
(* if both button_text and button_url are given (non-empty); with one of   *)
(* them or neither the call still succeeds, and the widget has no button   *)
(* key.                                                                    *)
C8_KeyValueButtonBothOrNeither ==
    last.op = "add_key_value" =>
        /\ last.exc = None <=> SectionResolves
        /\ last.exc = None =>
              /\ DOMAIN NewWidget = {"keyValue"}
              /\ "button" \in DOMAIN NewWidget.keyValue
                    <=> (Truthy(last.args.button_text) /\ Truthy(last.args.button_url))
              /\ "button" \in DOMAIN NewWidget.keyValue =>
                    NewWidget.keyValue.button =
                        [textButton |->
                            [text |-> last.args.button_text[1],
                             onClick |-> OpenLink(last.args.button_url[1])]]

\* button_text without button_url: a keyValue widget with no button key
C8_Witness ==
    /\ last.op = "add_key_value" /\ last.exc = None
    /\ Truthy(last.args.button_text) /\ last.args.button_url = None
    /\ "button" \notin DOMAIN NewWidget.keyValue

(* C9: send posts to the explicit argument when one is given (non-empty),  *)
(* otherwise to the URL stored at construction; with neither it fails      *)
(* with MissingWebhookError, issues no HTTP request and leaves the card    *)
(* unchanged.                                                              *)
C9_SendResolvesUrl ==
    last.op = "send" =>
        /\ card = before
        /\ Truthy(last.args.webhook_url) =>
              Len(http) = 1 /\ http[1].url = last.args.webhook_url[1]
        /\ (~Truthy(last.args.webhook_url) /\ Truthy(webhook_url)) =>
              Len(http) = 1 /\ http[1].url = webhook_url[1]
        /\ (~Truthy(last.args.webhook_url) /\ ~Truthy(webhook_url)) =>
              last.exc = Some(MissingWebhookError) /\ http = <<>>

\* an explicit URL given to a Message that stores another one
C9_Witness ==
    /\ last.op = "send"
    /\ Truthy(last.args.webhook_url) /\ Truthy(webhook_url)
    /\ last.args.webhook_url # webhook_url
    /\ Len(http) = 1
    /\ card.sections # <<>>

\* card d is card c grown by appending: the same header, no section
\* removed, replaced or reordered, every section's header kept and its
\* widget list extended at the end
Grown(c, d) ==
    /\ d.header = c.header
    /\ Len(c.sections) <= Len(d.sections)
    /\ \A j \in 1..Len(c.sections) :
          /\ DOMAIN d.sections[j] = DOMAIN c.sections[j]
          /\ "header" \in DOMAIN c.sections[j] =>
                d.sections[j].header = c.sections[j].header
          /\ IsPrefix(c.sections[j].widgets, d.sections[j].widgets)

(* C10: over every call, successful or failed, the card only grows by      *)
(* appending: no section or widget is removed, replaced or reordered, so   *)
(* an index returned by add_section keeps denoting the same section; and   *)
(* build and send change nothing of the card.                              *)
C10_CardOnlyGrows ==
    [][/\ Grown(card, card')
       /\ last'.op \in {"build", "send"} => card' = card]_vars

\* after a build, a widget is appended to the first of two sections, which
\* already had one
C10_Witness ==
    /\ payload # None
    /\ WidgetCall /\ last.exc = None
    /\ Len(card.sections) = 2
    /\ Len(card.sections[1].widgets) = 2
    /\ Len(before.sections[1].widgets) = 1
====
